---- MODULE Spec2Model ----
(***************************************************************************)
(* The tool-calling response loop of StreamlitLangchain:                   *)
(* chat/respond_with_tools.py (generate_reply_with_tools, its message      *)
(* translator and its bound-tool lookup), and what stands around it:       *)
(* chat/respond.py (generate_reply), chat/history.py and app/main.py (the  *)
(* stored history and the script of a session), tools/tool_manager.py      *)
(* (the tool registry).                                                    *)
(*                                                                         *)
(* Spec and FairSpec are one call of generate_reply_with_tools, CallSpec a *)
(* call of either reply function, HelperSpec one call of a helper          *)
(* function, AppSpec a session of the app, PairSpec two calls of           *)
(* generate_reply_with_tools at once, BothSpec a call of                   *)
(* generate_reply_with_tools followed by a call of generate_reply.         *)
(*                                                                         *)
(* Python strings are TLA+ strings; an attribute an object may lack        *)
(* (getattr(obj, name, default), hasattr(obj, name)) is a record field     *)
(* that may be missing from the record's DOMAIN.  The chat model and the   *)
(* tool executors are external: each model reply and each executor         *)
(* outcome (a returned value, or a raised Exception, which is what the     *)
(* handler at line 121 is written for) is a nondeterministic choice.       *)
(***************************************************************************)
EXTENDS Integers, Sequences, FiniteSets, TLC

VARIABLES
    history,         \* argument: list[ChatTurn]
    model,           \* argument: the chat model handle (its tool attributes)
    max_iterations,  \* argument
    messages,        \* local: the working Conversation
    iteration,       \* local: the loop counter
    response,        \* local: the last AIMessage returned by model.invoke
    tc,              \* position of the for loop inside response's tool_calls
    pc,              \* control state of generate_reply_with_tools
    outcome,         \* how the call ended: a returned str or a raised error
    invoked,         \* observer: the argument of every model.invoke call
    replied,         \* observer: the reply of every model.invoke call
    tool_log,        \* observer: what happened to every tool call handled
    emitted,         \* observer: number of tool calls emitted by the model
    helper_call,     \* a call of one of the helper functions: its name and arguments
    helper_result,   \* what that call returned
    session_state,   \* app: st.session_state, a mapping from keys to values
    run_pc,          \* app: where the script run() of the session stands
    system_prompt,   \* app: the text of the sidebar's "System prompt" field
    exchange,        \* observer: the user exchange of the current script run
    runs,            \* two calls at once: the frame of each call
    heap,            \* two calls at once: the list objects the calls have made
    earlier          \* observer: how the caller's earlier call went

\* the variables of generate_reply_with_tools, and the others
loop_vars == <<history, model, max_iterations, messages, iteration, response, tc,
               pc, outcome, invoked, replied, tool_log, emitted>>
helper_vars == <<helper_call, helper_result>>
app_vars == <<session_state, run_pc, system_prompt, exchange>>
pair_vars == <<runs, heap>>
outside_loop == <<helper_vars, app_vars, pair_vars, earlier>>
vars == <<loop_vars, outside_loop>>

-----------------------------------------------------------------------------
(* Bounds of the explored inputs *)

\* largest max_iterations argument
MaxIter == 3
\* most tool calls the model emits over one exchange
MaxCalls == 2

-----------------------------------------------------------------------------
(* Python str helpers *)

IsSpace(c) == c \in {" ", "\t", "\n"}

RECURSIVE LStrip(_)
LStrip(s) ==
    IF Len(s) > 0 /\ IsSpace(SubSeq(s, 1, 1))
    THEN LStrip(SubSeq(s, 2, Len(s)))
    ELSE s

RECURSIVE RStrip(_)
RStrip(s) ==
    IF Len(s) > 0 /\ IsSpace(SubSeq(s, Len(s), Len(s)))
    THEN RStrip(SubSeq(s, 1, Len(s) - 1))
    ELSE s

\* str.strip()
Strip(s) == RStrip(LStrip(s))

-----------------------------------------------------------------------------
(* Messages *)

SystemMessage(content) == [type |-> "system", content |-> content]
HumanMessage(content) == [type |-> "human", content |-> content]
AIMessage(content) == [type |-> "ai", content |-> content, tool_calls |-> <<>>]
ToolMessage(content, tool_call_id) ==
    [type |-> "tool", content |-> content, tool_call_id |-> tool_call_id]

\* variant: a turn of role tool becomes a tool message that answers no call
translate_turn_keeps_tool(turn) ==
    IF turn.role = "system" THEN <<SystemMessage(turn.content)>>
    ELSE IF turn.role = "user" THEN <<HumanMessage(turn.content)>>
    ELSE IF turn.role = "assistant" THEN <<AIMessage(turn.content)>>
    ELSE IF turn.role = "tool" THEN <<ToolMessage(turn.content, "")>>
    ELSE <<>>

\* The body of the translator's for loop: what one turn appends to the
\* message list.  A turn of an unsupported role is logged and appends nothing.
translate_turn(turn) ==
    IF turn.role = "system" THEN <<SystemMessage(turn.content)>>
    ELSE IF turn.role = "user" THEN <<HumanMessage(turn.content)>>
    ELSE IF turn.role = "assistant" THEN <<AIMessage(turn.content)>>
    ELSE <<>>

\* _to_langchain_messages
RECURSIVE to_langchain_messages(_)
to_langchain_messages(h) ==
    IF h = <<>> THEN <<>>
    ELSE translate_turn(Head(h)) \o to_langchain_messages(Tail(h))

\* variant: a turn of any role but system and assistant is taken as the user's
respond_translate_turn_else_human(turn) ==
    IF turn.role = "system" THEN <<SystemMessage(turn.content)>>
    ELSE IF turn.role = "assistant" THEN <<AIMessage(turn.content)>>
    ELSE <<HumanMessage(turn.content)>>

\* chat/respond.py has its own copy of the translator: the body of its for
\* loop, and _to_langchain_messages
respond_translate_turn(turn) ==
    IF turn.role = "system" THEN <<SystemMessage(turn.content)>>
    ELSE IF turn.role = "user" THEN <<HumanMessage(turn.content)>>
    ELSE IF turn.role = "assistant" THEN <<AIMessage(turn.content)>>
    ELSE <<>>

RECURSIVE respond_to_langchain_messages(_)
respond_to_langchain_messages(h) ==
    IF h = <<>> THEN <<>>
    ELSE respond_translate_turn(Head(h)) \o respond_to_langchain_messages(Tail(h))

-----------------------------------------------------------------------------
(* Bound-tool lookup *)

None == [is_none |-> TRUE]

\* `for tool in tools: if tool.name == tool_name: return tool`
RECURSIVE first_named(_, _)
first_named(tools, tool_name) ==
    IF tools = <<>> THEN None
    ELSE IF Head(tools).name = tool_name THEN Head(tools)
    ELSE first_named(Tail(tools), tool_name)

\* _find_tool_by_name: the model's bound_tools first, then its tools.
find_tool_by_name(m, tool_name) ==
    LET in_bound == IF "bound_tools" \in DOMAIN m
                    THEN first_named(m.bound_tools, tool_name) ELSE None
        in_tools == IF "tools" \in DOMAIN m
                    THEN first_named(m.tools, tool_name) ELSE None
    IN  IF in_bound # None THEN in_bound ELSE in_tools

-----------------------------------------------------------------------------
(* The pieces of generate_reply_with_tools *)

\* variants of the loop test: one pass too many; a test made after the body
loop_condition_inclusive(i, n) == i <= n
loop_condition_do_while(i, n) == i = 0 \/ i < n

\* `while iteration < max_iterations`
loop_condition(i, n) == i < n

\* getattr(response, "tool_calls", [])
tool_calls_of(r) == IF "tool_calls" \in DOMAIN r THEN r.tool_calls ELSE <<>>

\* variant: a reply with text is final even when it carries tool calls
is_final_text_first(r) ==
    IF "content" \in DOMAIN r /\ Strip(r.content) # "" THEN TRUE
    ELSE tool_calls_of(r) = <<>>

\* `if not tool_calls`: the reply is treated as the final answer
is_final(r) == tool_calls_of(r) = <<>>

\* variant: only an absent content counts as empty
content_is_none(r) == "content" \notin DOMAIN r

\* `content is None or (isinstance(content, str) and not content.strip())`
\* with content = getattr(response, "content", None)
content_is_empty(r) ==
    IF "content" \notin DOMAIN r THEN TRUE ELSE Strip(r.content) = ""

\* variant: the returned text is trimmed
final_text_trimmed(r) == Strip(r.content)

\* `return str(content)`
final_text(r) == r.content

empty_response_error == "Model returned an empty response."

\* the message of the RuntimeError raised after the loop
exhausted_error(n) ==
    "Maximum tool calling iterations (" \o ToString(n) \o ") reached without final answer"

\* the two error texts; the ToolMessage content is "Error: " + error_msg
not_found_msg(tool_name) == "Tool '" \o tool_name \o "' not found in bound tools"
exec_error_msg(tool_name, e) == "Error executing tool '" \o tool_name \o "': " \o e

\* variant: the failure is tagged with the tool's name, not the call's id
error_result_by_name(call, e) ==
    ToolMessage("Error: " \o exec_error_msg(call.name, e), call.name)

\* variant: the returned value is announced
success_result_announced(call, result) ==
    ToolMessage("Tool result: " \o result, call.id)
not_found_result(call) ==
    ToolMessage("Error: " \o not_found_msg(call.name), call.id)
success_result(call, result) == ToolMessage(result, call.id)
error_result(call, e) ==
    ToolMessage("Error: " \o exec_error_msg(call.name, e), call.id)

\* How a call of generate_reply_with_tools ends
Returned(text) == [kind |-> "return", value |-> text]
Raised(type, msg) == [kind |-> "raise", type |-> type, value |-> msg]
Running == [kind |-> "running"]

\* No helper function is being called; a call that has not returned yet
NoCall == [fn |-> "none"]
Pending == [kind |-> "pending"]
HelperIdle ==
    /\ helper_call = NoCall
    /\ helper_result = Pending

\* A mapping without keys (an empty st.session_state), and no exchange
NoKeys == [k \in {} |-> <<>>]
NoExchange == [status |-> "none"]

\* The caller has made no earlier call
NoEarlier == [kind |-> "none"]

\* No two calls are running at once, none after the other
PairIdle ==
    /\ runs = <<>>
    /\ heap = <<>>
    /\ earlier = NoEarlier

\* No session of the app is open
AppIdle ==
    /\ session_state = NoKeys
    /\ run_pc = "NONE"
    /\ system_prompt = ""
    /\ exchange = NoExchange

\* An entry of tool_log: the tool call at position index of the batch of
\* iteration i, the tool it resolved to, and how it went
Handled(i, index, call, tool, kind, text) ==
    [iteration |-> i, index |-> index, call |-> call, tool |-> tool,
     kind |-> kind, text |-> text]

-----------------------------------------------------------------------------
(* The explored inputs *)

Histories ==
    { << [role |-> "system", content |-> "You are helpful."],
         [role |-> "user", content |-> "What's 2+2?"] >>,
      << [role |-> "system", content |-> "You are helpful."],
         [role |-> "tool", content |-> "Result: 3"],
         [role |-> "user", content |-> "hi"],
         [role |-> "assistant", content |-> "hello"],
         [role |-> "user", content |-> "What's 2+2?"] >> }

calculate_math == [name |-> "calculate_math", obj |-> "data_tools.calculate_math"]
fetch_weather == [name |-> "fetch_weather", obj |-> "data_tools.fetch_weather"]
other_weather == [name |-> "fetch_weather", obj |-> "other.fetch_weather"]

\* The handles model.bind_tools(tools, ...) may return (tool_manager.py line
\* 81): `bound` is the list of tools it was given.  Which attributes the
\* handle shows is the library's choice: neither bound_tools nor tools,
\* bound_tools, or both bound_tools and tools.
Models ==
    { [kind |-> "plain", bound |-> <<calculate_math, fetch_weather>>],
      [kind |-> "bound", bound |-> <<calculate_math, fetch_weather>>,
                         bound_tools |-> <<calculate_math, fetch_weather>>],
      [kind |-> "both", bound |-> <<calculate_math, other_weather>>,
                        bound_tools |-> <<calculate_math>>,
                        tools |-> <<other_weather, fetch_weather>>] }

\* Tool calls the model may emit: {name, args, id}
ToolCalls ==
    { [name |-> "calculate_math", args |-> "expression=2+2", id |-> "t1"],
      [name |-> "fetch_weather", args |-> "location=Seoul", id |-> "t2"],
      [name |-> "launch_rocket", args |-> "", id |-> "t3"] }

Batches(n) == UNION { [1..k -> ToolCalls] : k \in 0..n }

\* Text contents of a reply: empty, whitespace only, padded text
Contents == {"", " ", " ok "}

\* Replies of model.invoke without tool calls: content present or absent,
\* tool_calls empty or absent.
FinalReplies ==
    { [type |-> "ai", content |-> c, tool_calls |-> <<>>] : c \in Contents }
    \cup { [type |-> "ai", content |-> " ok "], [type |-> "ai", tool_calls |-> <<>>] }

\* Replies of model.invoke with 1..n tool calls, with or without text
ToolReplies(n) ==
    { [type |-> "ai", content |-> c, tool_calls |-> b] :
          c \in {"", " ok "}, b \in Batches(n) \ {<<>>} }

Replies(n) == FinalReplies \cup ToolReplies(n)

\* What tool.invoke may do: return a value (here its str()), or raise an
\* Exception (here its str()), such as the validation error of bad arguments
ToolReturns == {"Result: 4"}
ToolErrors == {"validation error"}

-----------------------------------------------------------------------------
(* The state machine *)

Init ==
    /\ history \in Histories
    /\ model \in Models
    /\ max_iterations \in 0..MaxIter
    /\ messages = <<>>
    /\ iteration = 0
    /\ response = None
    /\ tc = 0
    /\ pc = "ENTRY"
    /\ outcome = Running
    /\ invoked = <<>>
    /\ replied = <<>>
    /\ tool_log = <<>>
    /\ emitted = 0
    /\ HelperIdle
    /\ AppIdle
    /\ PairIdle

\* variant: the translator works on the caller's list and drops from it
\* the turns it does not support
Enter_prunes_history ==
    /\ pc = "ENTRY"
    /\ history' = SelectSeq(history, LAMBDA turn : translate_turn(turn) # <<>>)
    /\ messages' = to_langchain_messages(history)
    /\ iteration' = 0
    /\ pc' = "AWAITING_MODEL"
    /\ UNCHANGED outside_loop
    /\ UNCHANGED <<model, max_iterations, response, tc, outcome,
                   invoked, replied, tool_log, emitted>>

\* lines 71-72
Enter ==
    /\ pc = "ENTRY"
    /\ messages' = to_langchain_messages(history)
    /\ iteration' = 0
    /\ pc' = "AWAITING_MODEL"
    /\ UNCHANGED outside_loop
    /\ UNCHANGED <<history, model, max_iterations, response, tc, outcome,
                   invoked, replied, tool_log, emitted>>

\* variant: the pass is not counted (line 75 left out)
invoke_model_uncounted(r) ==
    /\ pc = "AWAITING_MODEL"
    /\ loop_condition(iteration, max_iterations)
    /\ iteration' = iteration
    /\ invoked' = Append(invoked, messages)
    /\ replied' = Append(replied, r)
    /\ response' = r
    /\ messages' = Append(messages, r)
    /\ emitted' = emitted + Len(tool_calls_of(r))
\* lines 74-83: the head of one pass of the while loop, with reply r
invoke_model(r) ==
    /\ pc = "AWAITING_MODEL"
    /\ loop_condition(iteration, max_iterations)
    /\ iteration' = iteration + 1
    /\ invoked' = Append(invoked, messages)
    /\ replied' = Append(replied, r)
    /\ response' = r
    /\ messages' = Append(messages, r)
    /\ emitted' = emitted + Len(tool_calls_of(r))

\* lines 74-89: the reply is final and its content is empty
RaiseEmptyResponse ==
    /\ \E r \in Replies(MaxCalls - emitted) :
          /\ invoke_model(r)
          /\ is_final(r)
          /\ content_is_empty(r)
    /\ outcome' = Raised("RuntimeError", empty_response_error)
    /\ pc' = "RAISED"
    /\ UNCHANGED outside_loop
    /\ UNCHANGED <<history, model, max_iterations, tc, tool_log>>

\* variant: a final reply of the last permitted pass is not returned; the
\* loop goes back to its test
ReturnFinal_within_budget ==
    /\ \E r \in Replies(MaxCalls - emitted) :
          /\ invoke_model(r)
          /\ is_final(r)
          /\ ~content_is_empty(r)
          /\ IF iteration + 1 < max_iterations
             THEN outcome' = Returned(final_text(r)) /\ pc' = "DONE"
             ELSE outcome' = outcome /\ pc' = "AWAITING_MODEL"
    /\ UNCHANGED outside_loop
    /\ UNCHANGED <<history, model, max_iterations, tc, tool_log>>
\* lines 74-91: the reply is final and has content
ReturnFinal ==
    /\ \E r \in Replies(MaxCalls - emitted) :
          /\ invoke_model(r)
          /\ is_final(r)
          /\ ~content_is_empty(r)
          /\ outcome' = Returned(final_text(r))
    /\ pc' = "DONE"
    /\ UNCHANGED outside_loop
    /\ UNCHANGED <<history, model, max_iterations, tc, tool_log>>

\* variant: the tool calls of the last permitted pass are not executed
StartToolCalls_skips_last ==
    /\ \E r \in Replies(MaxCalls - emitted) :
          /\ invoke_model(r)
          /\ ~is_final(r)
    /\ tc' = 1
    /\ pc' = IF iteration + 1 < max_iterations
             THEN "EXECUTING_TOOLS" ELSE "AWAITING_MODEL"
    /\ UNCHANGED outside_loop
    /\ UNCHANGED <<history, model, max_iterations, outcome, tool_log>>
\* lines 74-95: the reply carries tool calls, the for loop starts
StartToolCalls ==
    /\ \E r \in Replies(MaxCalls - emitted) :
          /\ invoke_model(r)
          /\ ~is_final(r)
    /\ tc' = 1
    /\ pc' = "EXECUTING_TOOLS"
    /\ UNCHANGED outside_loop
    /\ UNCHANGED <<history, model, max_iterations, outcome, tool_log>>

\* variant: the result is inserted at the head of the Conversation
append_result_at_head(tool_result) ==
    /\ messages' = <<tool_result>> \o messages
    /\ tc' = tc + 1
    /\ pc' = IF tc < Len(tool_calls_of(response))
             THEN "EXECUTING_TOOLS" ELSE "AWAITING_MODEL"

\* line 129 and the step of the for loop: append the result, then go on to
\* the next tool call or back to the while test
append_result(tool_result) ==
    /\ messages' = Append(messages, tool_result)
    /\ tc' = tc + 1
    /\ pc' = IF tc < Len(tool_calls_of(response))
             THEN "EXECUTING_TOOLS" ELSE "AWAITING_MODEL"

\* variant: an unknown tool name ends the batch (the rest is skipped)
ToolNotFound_breaks ==
    /\ pc = "EXECUTING_TOOLS"
    /\ LET call == tool_calls_of(response)[tc]
       IN  /\ find_tool_by_name(model, call.name) = None
           /\ tool_log' = Append(tool_log,
                  Handled(iteration, tc, call, None, "not_found", ""))
           /\ messages' = Append(messages, not_found_result(call))
           /\ tc' = tc + 1
           /\ pc' = "AWAITING_MODEL"
    /\ UNCHANGED outside_loop
    /\ UNCHANGED <<history, model, max_iterations, iteration, response,
                   outcome, invoked, replied, emitted>>

\* lines 95-111, 129: the requested tool is not among the model's tools
ToolNotFound ==
    /\ pc = "EXECUTING_TOOLS"
    /\ LET call == tool_calls_of(response)[tc]
       IN  /\ find_tool_by_name(model, call.name) = None
           /\ tool_log' = Append(tool_log,
                  Handled(iteration, tc, call, None, "not_found", ""))
           /\ append_result(not_found_result(call))
    /\ UNCHANGED outside_loop
    /\ UNCHANGED <<history, model, max_iterations, iteration, response,
                   outcome, invoked, replied, emitted>>

\* lines 95-104, 112-119, 129: the tool is found and its executor returns
ToolSucceeds ==
    /\ pc = "EXECUTING_TOOLS"
    /\ LET call == tool_calls_of(response)[tc]
           tool == find_tool_by_name(model, call.name)
       IN  /\ tool # None
           /\ \E result \in ToolReturns :
                 /\ tool_log' = Append(tool_log,
                        Handled(iteration, tc, call, tool, "returned", result))
                 /\ append_result(success_result(call, result))
    /\ UNCHANGED outside_loop
    /\ UNCHANGED <<history, model, max_iterations, iteration, response,
                   outcome, invoked, replied, emitted>>

\* variant: no handler around tool.invoke, the executor's exception leaves
\* generate_reply_with_tools
ToolFails_unhandled ==
    /\ pc = "EXECUTING_TOOLS"
    /\ LET call == tool_calls_of(response)[tc]
           tool == find_tool_by_name(model, call.name)
       IN  /\ tool # None
           /\ \E e \in ToolErrors :
                 /\ tool_log' = Append(tool_log,
                        Handled(iteration, tc, call, tool, "raised", e))
                 /\ outcome' = Raised("Exception", e)
                 /\ pc' = "RAISED"
    /\ UNCHANGED outside_loop
    /\ UNCHANGED <<history, model, max_iterations, messages, iteration,
                   response, tc, invoked, replied, emitted>>

\* variant: the handler logs the failure and goes on to the next call
\* without a tool message
ToolFails_drops_result ==
    /\ pc = "EXECUTING_TOOLS"
    /\ LET call == tool_calls_of(response)[tc]
           tool == find_tool_by_name(model, call.name)
       IN  /\ tool # None
           /\ \E e \in ToolErrors :
                 tool_log' = Append(tool_log,
                     Handled(iteration, tc, call, tool, "raised", e))
    /\ tc' = tc + 1
    /\ pc' = IF tc < Len(tool_calls_of(response))
             THEN "EXECUTING_TOOLS" ELSE "AWAITING_MODEL"
    /\ UNCHANGED outside_loop
    /\ UNCHANGED <<history, model, max_iterations, messages, iteration,
                   response, outcome, invoked, replied, emitted>>
\* lines 95-104, 114, 121-129: the tool is found and its executor raises an
\* Exception, which the handler turns into a tool result
ToolFails ==
    /\ pc = "EXECUTING_TOOLS"
    /\ LET call == tool_calls_of(response)[tc]
           tool == find_tool_by_name(model, call.name)
       IN  /\ tool # None
           /\ \E e \in ToolErrors :
                 /\ tool_log' = Append(tool_log,
                        Handled(iteration, tc, call, tool, "raised", e))
                 /\ append_result(error_result(call, e))
    /\ UNCHANGED outside_loop
    /\ UNCHANGED <<history, model, max_iterations, iteration, response,
                   outcome, invoked, replied, emitted>>

\* lines 74, 131-134: the while test fails
RaiseExhausted ==
    /\ pc = "AWAITING_MODEL"
    /\ ~loop_condition(iteration, max_iterations)
    /\ outcome' = Raised("RuntimeError", exhausted_error(max_iterations))
    /\ pc' = "RAISED"
    /\ UNCHANGED outside_loop
    /\ UNCHANGED <<history, model, max_iterations, messages, iteration,
                   response, tc, invoked, replied, tool_log, emitted>>

Next ==
    \/ Enter
    \/ RaiseEmptyResponse
    \/ ReturnFinal
    \/ StartToolCalls
    \/ ToolNotFound
    \/ ToolSucceeds
    \/ ToolFails
    \/ RaiseExhausted

Spec == Init /\ [][Next]_vars

\* The call runs on one thread and each of its steps returns: model.invoke
\* and tool.invoke are blocking calls that come back with a value or an
\* exception, so a step that can be taken is eventually taken.
FairSpec == Spec /\ WF_vars(Next)

-----------------------------------------------------------------------------
(* The helper functions called on their own: one call, with arguments      *)
(* drawn from the explored inputs, and its result                          *)

\* longest history handed to a translator
MaxTurns == 3

\* Roles of a turn: the three of Role, and strings outside it
TurnRoles == {"system", "user", "assistant", "tool", "function", "User"}
TurnContents == {"", "hi"}
Turns == [role : TurnRoles, content : TurnContents]
TurnLists == UNION { [1..k -> Turns] : k \in 0..MaxTurns }

\* generate_reply_with_tools is not running
LoopIdle ==
    /\ history = <<>>
    /\ model = [kind |-> "plain"]
    /\ max_iterations = 0
    /\ messages = <<>>
    /\ iteration = 0
    /\ response = None
    /\ tc = 0
    /\ pc = "IDLE"
    /\ outcome = Running
    /\ invoked = <<>>
    /\ replied = <<>>
    /\ tool_log = <<>>
    /\ emitted = 0

\* tools/tool_manager.py: the registry, in the order of the source
search_web == [name |-> "search_web", obj |-> "search_tools.search_web"]
search_documents ==
    [name |-> "search_documents", obj |-> "search_tools.search_documents"]
get_current_time ==
    [name |-> "get_current_time", obj |-> "utility_tools.get_current_time"]
convert_currency ==
    [name |-> "convert_currency", obj |-> "utility_tools.convert_currency"]

AVAILABLE_TOOLS ==
    << search_web, search_documents, fetch_weather, calculate_math,
       get_current_time, convert_currency >>

\* str.lower() on the letters that occur in the explored names
Lower(str) ==
    LET upper == "ABCDEFGHIJKLMNOPQRSTUVWXYZ"
        lower == "abcdefghijklmnopqrstuvwxyz"
        low[i \in 0..Len(str)] ==
            IF i = 0 THEN ""
            ELSE LET c == SubSeq(str, i, i)
                     at == {k \in 1..26 : SubSeq(upper, k, k) = c}
                 IN  low[i - 1] \o
                        (IF at = {} THEN c
                         ELSE LET k == CHOOSE k \in at : TRUE
                              IN  SubSeq(lower, k, k))
    IN  low[Len(str)]

\* variant: the names are compared without regard to case
get_tool_by_name_any_case(name) ==
    LET hits == {i \in 1..Len(AVAILABLE_TOOLS) :
                    Lower(AVAILABLE_TOOLS[i].name) = Lower(name)}
    IN  IF hits = {} THEN None
        ELSE AVAILABLE_TOOLS[CHOOSE i \in hits : \A j \in hits : i <= j]

\* tool_manager.get_tool_by_name: the first tool of the registry whose name
\* equals the given one, or None
get_tool_by_name(name) ==
    LET hits == {i \in 1..Len(AVAILABLE_TOOLS) : AVAILABLE_TOOLS[i].name = name}
    IN  IF hits = {} THEN None
        ELSE AVAILABLE_TOOLS[CHOOSE i \in hits : \A j \in hits : i <= j]

\* variant: the names come out in alphabetical order
list_available_tools_sorted ==
    << "calculate_math", "convert_currency", "fetch_weather",
       "get_current_time", "search_documents", "search_web" >>

\* tool_manager.list_available_tools
list_available_tools ==
    [i \in 1..Len(AVAILABLE_TOOLS) |-> AVAILABLE_TOOLS[i].name]

\* An argument that is given (not None)
Given(value) == [value |-> value]

\* model.bind_tools(tools, **bind_kwargs): the handle the library returns
\* for these arguments
bind_tools(m, tools, bind_kwargs) ==
    [kind |-> "binding", of |-> m, bound |-> tools, kwargs |-> bind_kwargs]

\* variant: both keyword arguments are always passed on
bind_tools_to_model_explicit(m, tools, tool_choice, parallel_tool_calls) ==
    LET bound_list == IF tools = None THEN AVAILABLE_TOOLS ELSE tools.value
        choice == IF tool_choice = None THEN "auto" ELSE tool_choice.value
        kwargs2 == [k \in {"tool_choice", "parallel_tool_calls"} |->
                       IF k = "tool_choice" THEN choice ELSE parallel_tool_calls]
    IN  bind_tools(m, bound_list, kwargs2)

\* tool_manager.bind_tools_to_model
bind_tools_to_model(m, tools, tool_choice, parallel_tool_calls) ==
    LET bound_list == IF tools = None THEN AVAILABLE_TOOLS ELSE tools.value
        kwargs1 == IF tool_choice # None
                   THEN [k \in {"tool_choice"} |-> tool_choice.value]
                   ELSE [k \in {} |-> ""]
        kwargs2 == IF ~parallel_tool_calls
                   THEN [k \in DOMAIN kwargs1 \cup {"parallel_tool_calls"} |->
                            IF k = "parallel_tool_calls" THEN FALSE ELSE kwargs1[k]]
                   ELSE kwargs1
    IN  bind_tools(m, bound_list, kwargs2)

\* Arguments of bind_tools_to_model: no tool list, an empty one, one tool,
\* two tools out of registry order; no policy, "any", a tool's name
BindTools ==
    { None, Given(<<>>), Given(<<calculate_math>>),
      Given(<<get_current_time, search_web>>) }
BindChoices == { None, Given("any"), Given("calculate_math") }

\* Names asked of the registry: the registered ones, the same in another
\* case, with a blank around, cut short, and unknown ones
LookupNames ==
    { AVAILABLE_TOOLS[i].name : i \in 1..Len(AVAILABLE_TOOLS) }
    \cup { "Search_Web", "SEARCH_WEB", "Fetch_weather", "calculate_Math",
           "search_web ", " search_web", "search", "", "launch_rocket" }

HelperCalls ==
    [fn : {"respond_with_tools._to_langchain_messages",
           "respond._to_langchain_messages"},
     history : TurnLists]
    \cup [fn : {"get_tool_by_name"}, name : LookupNames]
    \cup [fn : {"list_available_tools"}]
    \cup [fn : {"bind_tools_to_model"}, model : {[kind |-> "groq"]},
          tools : BindTools, tool_choice : BindChoices,
          parallel_tool_calls : BOOLEAN]

HelperInit ==
    /\ LoopIdle
    /\ AppIdle
    /\ PairIdle
    /\ helper_call \in HelperCalls
    /\ helper_result = Pending

\* respond_with_tools._to_langchain_messages(history)
Call_to_langchain_messages ==
    /\ helper_result = Pending
    /\ helper_call.fn = "respond_with_tools._to_langchain_messages"
    /\ helper_result' = Returned(to_langchain_messages(helper_call.history))
    /\ UNCHANGED <<helper_call, loop_vars, app_vars, pair_vars, earlier>>

\* respond._to_langchain_messages(history)
Call_respond_to_langchain_messages ==
    /\ helper_result = Pending
    /\ helper_call.fn = "respond._to_langchain_messages"
    /\ helper_result' = Returned(respond_to_langchain_messages(helper_call.history))
    /\ UNCHANGED <<helper_call, loop_vars, app_vars, pair_vars, earlier>>

\* tool_manager.get_tool_by_name(name)
Call_get_tool_by_name ==
    /\ helper_result = Pending
    /\ helper_call.fn = "get_tool_by_name"
    /\ helper_result' = Returned(get_tool_by_name(helper_call.name))
    /\ UNCHANGED <<helper_call, loop_vars, app_vars, pair_vars, earlier>>

\* tool_manager.list_available_tools()
Call_list_available_tools ==
    /\ helper_result = Pending
    /\ helper_call.fn = "list_available_tools"
    /\ helper_result' = Returned(list_available_tools)
    /\ UNCHANGED <<helper_call, loop_vars, app_vars, pair_vars, earlier>>

\* tool_manager.bind_tools_to_model(model, tools, tool_choice,
\* parallel_tool_calls)
Call_bind_tools_to_model ==
    /\ helper_result = Pending
    /\ helper_call.fn = "bind_tools_to_model"
    /\ helper_result' = Returned(
           bind_tools_to_model(helper_call.model, helper_call.tools,
                               helper_call.tool_choice,
                               helper_call.parallel_tool_calls))
    /\ UNCHANGED <<helper_call, loop_vars, app_vars, pair_vars, earlier>>

HelperNext ==
    \/ Call_bind_tools_to_model
    \/ Call_to_langchain_messages
    \/ Call_respond_to_langchain_messages
    \/ Call_get_tool_by_name
    \/ Call_list_available_tools

HelperSpec == HelperInit /\ [][HelperNext]_vars

-----------------------------------------------------------------------------
(* chat/respond.py: generate_reply, the reply without tools.  Its frame is *)
(* held in the variables of the same names (history, model, messages,      *)
(* response, pc, outcome); invoked and replied observe its model call.     *)

\* lines 53-54: the test that raises the empty-response error
\* variant: only an absent content counts as empty
respond_content_is_none(r) == "content" \notin DOMAIN r
respond_content_is_empty(r) ==
    IF "content" \notin DOMAIN r THEN TRUE ELSE Strip(r.content) = ""

\* line 56: str(content)
respond_final_text(r) == r.content

\* generate_reply(history=..., model=...) is called
ReplyInit ==
    /\ history \in Histories
    /\ model \in Models
    /\ max_iterations = 0
    /\ messages = <<>>
    /\ iteration = 0
    /\ response = None
    /\ tc = 0
    /\ pc = "REPLY_ENTRY"
    /\ outcome = Running
    /\ invoked = <<>>
    /\ replied = <<>>
    /\ tool_log = <<>>
    /\ emitted = 0
    /\ HelperIdle
    /\ AppIdle
    /\ PairIdle

\* line 51
ReplyEnter ==
    /\ pc = "REPLY_ENTRY"
    /\ messages' = respond_to_langchain_messages(history)
    /\ pc' = "REPLY_AWAITING_MODEL"
    /\ UNCHANGED outside_loop
    /\ UNCHANGED <<history, model, max_iterations, iteration, response, tc,
                   outcome, invoked, replied, tool_log, emitted>>

\* line 52, with reply r
reply_invoke_model(r) ==
    /\ pc = "REPLY_AWAITING_MODEL"
    /\ invoked' = Append(invoked, messages)
    /\ replied' = Append(replied, r)
    /\ response' = r

\* lines 52-55: the reply has no text
ReplyRaiseEmpty ==
    /\ \E r \in Replies(1) :
          /\ reply_invoke_model(r)
          /\ respond_content_is_empty(r)
    /\ outcome' = Raised("RuntimeError", empty_response_error)
    /\ pc' = "REPLY_RAISED"
    /\ UNCHANGED outside_loop
    /\ UNCHANGED <<history, model, max_iterations, messages, iteration, tc,
                   tool_log, emitted>>

\* lines 52-56: the reply has text, which is returned
ReplyReturn ==
    /\ \E r \in Replies(1) :
          /\ reply_invoke_model(r)
          /\ ~respond_content_is_empty(r)
          /\ outcome' = Returned(respond_final_text(r))
    /\ pc' = "REPLY_DONE"
    /\ UNCHANGED outside_loop
    /\ UNCHANGED <<history, model, max_iterations, messages, iteration, tc,
                   tool_log, emitted>>

ReplyNext ==
    \/ ReplyEnter
    \/ ReplyRaiseEmpty
    \/ ReplyReturn

\* A caller's call of either reply function
CallInit == Init \/ ReplyInit
CallNext == Next \/ ReplyNext
CallSpec == CallInit /\ [][CallNext]_vars

\* ---------------------------------------------------------------------
\* One caller, one history, one model that never asks for a tool:
\* generate_reply_with_tools is called, and after it generate_reply.
\* ---------------------------------------------------------------------

\* what the caller keeps of the call that is over
EarlierCall(o, inv, rep) ==
    [kind |-> "call", outcome |-> o, invoked |-> inv, replied |-> rep]

\* model.invoke is a function of the messages it is given: messages it
\* has answered before get the same answer, and no answer asks for a tool
answers_as_before ==
    /\ is_final(response)
    /\ IF earlier = NoEarlier THEN TRUE
       ELSE \A i \in 1..Len(earlier.invoked) :
               earlier.invoked[i] = invoked[Len(invoked)]
                   => response = earlier.replied[i]

\* the call of generate_reply_with_tools is over (lines 91, 89, 131-134);
\* generate_reply(history=..., model=...) is called with the same arguments
ThenGenerateReply ==
    /\ pc \in {"DONE", "RAISED"}
    /\ earlier = NoEarlier
    /\ earlier' = EarlierCall(outcome, invoked, replied)
    /\ messages' = <<>>
    /\ iteration' = 0
    /\ response' = None
    /\ tc' = 0
    /\ pc' = "REPLY_ENTRY"
    /\ outcome' = Running
    /\ invoked' = <<>>
    /\ replied' = <<>>
    /\ UNCHANGED <<history, model, max_iterations, tool_log, emitted>>
    /\ UNCHANGED <<helper_vars, app_vars, pair_vars>>

\* respond.py lines 52-55, the model being the one of the earlier call
SameModelRaiseEmpty == ReplyRaiseEmpty /\ answers_as_before'

\* respond.py lines 52-56, the model being the one of the earlier call
SameModelReturn == ReplyReturn /\ answers_as_before'

BothInit == Init

BothNext ==
    \/ Enter
    \/ RaiseEmptyResponse
    \/ ReturnFinal
    \/ RaiseExhausted
    \/ ThenGenerateReply
    \/ ReplyEnter
    \/ SameModelRaiseEmpty
    \/ SameModelReturn

BothSpec == BothInit /\ [][BothNext]_vars

-----------------------------------------------------------------------------
(* chat/history.py and app/main.py: the history kept in st.session_state   *)
(* and the script run() of one session.  Streamlit runs the script from    *)
(* the top at every interaction of the user; generate_reply is the reply   *)
(* function the script calls.                                              *)

DEFAULT_SYSTEM_PROMPT == "You are a helpful assistant."

\* most user exchanges held by one stored history
MaxExchanges == 2

\* What the user may type: the sidebar's system prompt, the chat input
SystemPrompts == {DEFAULT_SYSTEM_PROMPT, "Be brief."}
Prompts == {"hi", "What's 2+2?"}

\* dict operations on st.session_state
has_key(s, key) == key \in DOMAIN s
set_key(s, key, value) ==
    [k \in DOMAIN s \cup {key} |-> IF k = key THEN value ELSE s[k]]
pop_key(s, key) == [k \in DOMAIN s \ {key} |-> s[k]]

\* variant: the history is set up again at every run of the script
ensure_history_always(s, prompt, state_key) ==
    set_key(s, state_key, << [role |-> "system", content |-> prompt] >>)

\* variant: a stored history whose system turn differs from the prompt
\* gets the prompt as its first turn
ensure_history_follows_prompt(s, prompt, state_key) ==
    IF has_key(s, state_key)
    THEN set_key(s, state_key,
                 << [role |-> "system", content |-> prompt] >>
                     \o SubSeq(s[state_key], 2, Len(s[state_key])))
    ELSE set_key(s, state_key, << [role |-> "system", content |-> prompt] >>)
\* history.ensure_history_initialized
ensure_history_initialized(s, prompt, state_key) ==
    IF has_key(s, state_key) THEN s
    ELSE set_key(s, state_key, << [role |-> "system", content |-> prompt] >>)

\* variant: the turn is put in front of the history
append_turn_in_front(s, role, content, state_key) ==
    set_key(s, state_key, <<[role |-> role, content |-> content]>> \o s[state_key])

\* history.append_turn
append_turn(s, role, content, state_key) ==
    set_key(s, state_key, Append(s[state_key], [role |-> role, content |-> content]))

\* history.get_history
get_history(s, state_key) == s[state_key]

\* number of user turns of a history
user_turns(h) == Cardinality({k \in 1..Len(h) : h[k].role = "user"})

\* The browser opens the session: nothing is stored, the sidebar shows its
\* default text, the script has not run yet.
AppInit ==
    /\ LoopIdle
    /\ HelperIdle
    /\ PairIdle
    /\ session_state = NoKeys
    /\ run_pc = "IDLE"
    /\ system_prompt = DEFAULT_SYSTEM_PROMPT
    /\ exchange = NoExchange

\* main.py lines 35-68 with an empty chat input: the first access, the run
\* after a change of the sidebar's text (prompt), the run asked for by
\* st.rerun() (the sidebar keeps its text)
RunScript ==
    /\ run_pc \in {"IDLE", "RERUN"}
    /\ \E prompt \in SystemPrompts :
          /\ run_pc = "RERUN" => prompt = system_prompt
          /\ system_prompt' = prompt
          /\ session_state' =
                 ensure_history_initialized(session_state, prompt, "chat_history")
    /\ run_pc' = "IDLE"
    /\ exchange' = NoExchange
    /\ UNCHANGED <<loop_vars, helper_vars, pair_vars, earlier>>

\* main.py lines 28-30: the "Reset chat" button
ResetChat ==
    /\ run_pc = "IDLE"
    /\ session_state' = pop_key(session_state, "chat_history")
    /\ run_pc' = "RERUN"
    /\ exchange' = NoExchange
    /\ UNCHANGED <<system_prompt, loop_vars, helper_vars, pair_vars, earlier>>

\* main.py lines 35-77 with a chat input: the history is made sure of, the
\* user's turn is appended, generate_reply is called with the stored history
\* and a model without tools
SubmitPrompt ==
    /\ run_pc = "IDLE"
    /\ has_key(session_state, "chat_history")
    /\ user_turns(get_history(session_state, "chat_history")) < MaxExchanges
    /\ \E prompt \in Prompts :
          LET before == ensure_history_initialized(session_state, system_prompt,
                                                   "chat_history")
              after == append_turn(before, "user", prompt, "chat_history")
          IN  /\ session_state' = after
              /\ exchange' = [status |-> "running", prompt |-> prompt,
                              before |-> get_history(before, "chat_history")]
              /\ history' = get_history(after, "chat_history")
    /\ model' = [kind |-> "plain"]
    /\ messages' = <<>>
    /\ response' = None
    /\ outcome' = Running
    /\ invoked' = <<>>
    /\ replied' = <<>>
    /\ pc' = "REPLY_ENTRY"
    /\ run_pc' = "GENERATING"
    /\ UNCHANGED <<system_prompt, max_iterations, iteration, tc, tool_log,
                   emitted, helper_vars, pair_vars, earlier>>

\* variant: the failure notice is stored as the assistant's turn
ShowError_stores_notice ==
    /\ run_pc = "GENERATING"
    /\ pc = "REPLY_RAISED"
    /\ session_state' = append_turn(session_state, "assistant",
                                    "Failed to generate a reply.", "chat_history")
    /\ exchange' = [exchange EXCEPT !.status = "failed"]
    /\ pc' = "IDLE"
    /\ run_pc' = "IDLE"
    /\ UNCHANGED <<system_prompt, history, model, max_iterations, messages,
                   iteration, response, tc, outcome, invoked, replied,
                   tool_log, emitted, helper_vars, pair_vars, earlier>>

\* main.py lines 78-81: generate_reply raised; the handler logs, shows the
\* notice and ends the run
ShowError ==
    /\ run_pc = "GENERATING"
    /\ pc = "REPLY_RAISED"
    /\ exchange' = [exchange EXCEPT !.status = "failed"]
    /\ pc' = "IDLE"
    /\ run_pc' = "IDLE"
    /\ UNCHANGED <<session_state, system_prompt, history, model,
                   max_iterations, messages, iteration, response, tc, outcome,
                   invoked, replied, tool_log, emitted, helper_vars, pair_vars, earlier>>

\* main.py lines 77, 82-84: generate_reply returned assistant_text, which is
\* shown and appended
AppendAssistant ==
    /\ run_pc = "GENERATING"
    /\ pc = "REPLY_DONE"
    /\ LET assistant_text == outcome.value
       IN  /\ session_state' = append_turn(session_state, "assistant",
                                           assistant_text, "chat_history")
           /\ exchange' = [status |-> "succeeded", prompt |-> exchange.prompt,
                           before |-> exchange.before, text |-> assistant_text]
    /\ pc' = "IDLE"
    /\ run_pc' = "IDLE"
    /\ UNCHANGED <<system_prompt, history, model, max_iterations, messages,
                   iteration, response, tc, outcome, invoked, replied,
                   tool_log, emitted, helper_vars, pair_vars, earlier>>

AppNext ==
    \/ RunScript
    \/ ResetChat
    \/ SubmitPrompt
    \/ ReplyEnter
    \/ ReplyRaiseEmpty
    \/ ReplyReturn
    \/ ShowError
    \/ AppendAssistant

AppSpec == AppInit /\ [][AppNext]_vars

-----------------------------------------------------------------------------
(* Two calls of generate_reply_with_tools at once, on the same stored      *)
(* history and the same model handle (two threads).  A Python list is an   *)
(* object: heap holds the lists the calls have made, and the local         *)
(* `messages` of a call is a reference into it.  The locals of each call   *)
(* (messages, iteration, response, the position in the for loop) are its   *)
(* own; history, model and max_iterations are the arguments both share.    *)

Executions == {1, 2}

\* largest max_iterations argument of the two calls
MaxPairIter == 2

\* variant: the translation of a history is made once and handed out again
new_translation_memoised(hp, h) ==
    IF hp = <<>>
    THEN [heap |-> <<to_langchain_messages(h)>>, ref |-> 1]
    ELSE [heap |-> hp, ref |-> 1]

\* respond_with_tools.py line 30 and 42: the translator makes a new list
\* and returns it
new_translation(hp, h) ==
    [heap |-> Append(hp, to_langchain_messages(h)), ref |-> Len(hp) + 1]

\* list.append on the list behind a reference
list_append(hp, ref, message) == [hp EXCEPT ![ref] = Append(@, message)]

\* Replies of the model in this setting: a final text, an empty final
\* reply, one tool call
PairReplies ==
    { [type |-> "ai", content |-> " ok ", tool_calls |-> <<>>],
      [type |-> "ai", content |-> "", tool_calls |-> <<>>] }
    \cup { [type |-> "ai", content |-> "", tool_calls |-> <<c>>] :
              c \in {c \in ToolCalls : c.name # "fetch_weather"} }

\* lines 102-127: the tool messages the handling of one call may end with
tool_results(m, tool_call) ==
    IF find_tool_by_name(m, tool_call.name) = None
    THEN {not_found_result(tool_call)}
    ELSE {success_result(tool_call, x) : x \in ToolReturns}
         \cup {error_result(tool_call, e) : e \in ToolErrors}

\* the frame of a call that has not started
NewRun ==
    [messages |-> 0, iteration |-> 0, response |-> None, tc |-> 0,
     pc |-> "ENTRY", outcome |-> Running,
     translated |-> <<>>, appended |-> <<>>, invoked |-> <<>>]

PairInit ==
    /\ history \in Histories
    /\ model \in {m \in Models : m.kind = "bound"}
    /\ max_iterations \in 0..MaxPairIter
    /\ messages = <<>>
    /\ iteration = 0
    /\ response = None
    /\ tc = 0
    /\ pc = "IDLE"
    /\ outcome = Running
    /\ invoked = <<>>
    /\ replied = <<>>
    /\ tool_log = <<>>
    /\ emitted = 0
    /\ HelperIdle
    /\ AppIdle
    /\ runs = [p \in Executions |-> NewRun]
    /\ heap = <<>>
    /\ earlier = NoEarlier

\* lines 71-72 in call p
PairEnter(p) ==
    /\ runs[p].pc = "ENTRY"
    /\ LET made == new_translation(heap, history)
       IN  /\ heap' = made.heap
           /\ runs' = [runs EXCEPT ![p] =
                  [@ EXCEPT !.messages = made.ref,
                            !.iteration = 0,
                            !.translated = to_langchain_messages(history),
                            !.pc = "AWAITING_MODEL"]]
    /\ UNCHANGED <<loop_vars, helper_vars, app_vars, earlier>>

\* lines 74-95 in call p: one pass of the while loop up to the for loop
PairInvokeModel(p) ==
    /\ runs[p].pc = "AWAITING_MODEL"
    /\ loop_condition(runs[p].iteration, max_iterations)
    /\ \E r \in PairReplies :
          /\ heap' = list_append(heap, runs[p].messages, r)
          /\ runs' = [runs EXCEPT ![p] =
                 [@ EXCEPT !.iteration = @ + 1,
                           !.response = r,
                           !.invoked = Append(@, heap[runs[p].messages]),
                           !.appended = Append(@, r),
                           !.tc = IF is_final(r) THEN @ ELSE 1,
                           !.outcome =
                               IF ~is_final(r) THEN @
                               ELSE IF content_is_empty(r)
                                    THEN Raised("RuntimeError", empty_response_error)
                                    ELSE Returned(final_text(r)),
                           !.pc =
                               IF ~is_final(r) THEN "EXECUTING_TOOLS"
                               ELSE IF content_is_empty(r) THEN "RAISED"
                                    ELSE "DONE"]]
    /\ UNCHANGED <<loop_vars, helper_vars, app_vars, earlier>>

\* lines 95-129 in call p: one tool call of the batch is handled
PairHandleToolCall(p) ==
    /\ runs[p].pc = "EXECUTING_TOOLS"
    /\ LET calls == tool_calls_of(runs[p].response)
           tool_call == calls[runs[p].tc]
       IN  \E tool_result \in tool_results(model, tool_call) :
              /\ heap' = list_append(heap, runs[p].messages, tool_result)
              /\ runs' = [runs EXCEPT ![p] =
                     [@ EXCEPT !.appended = Append(@, tool_result),
                               !.tc = @ + 1,
                               !.pc = IF runs[p].tc < Len(calls)
                                      THEN "EXECUTING_TOOLS"
                                      ELSE "AWAITING_MODEL"]]
    /\ UNCHANGED <<loop_vars, helper_vars, app_vars, earlier>>

\* lines 74, 131-134 in call p
PairRaiseExhausted(p) ==
    /\ runs[p].pc = "AWAITING_MODEL"
    /\ ~loop_condition(runs[p].iteration, max_iterations)
    /\ runs' = [runs EXCEPT ![p] =
           [@ EXCEPT !.outcome = Raised("RuntimeError",
                                        exhausted_error(max_iterations)),
                     !.pc = "RAISED"]]
    /\ UNCHANGED <<heap, loop_vars, helper_vars, app_vars, earlier>>

\* the threads are scheduled in any order
PairNext ==
    \E p \in Executions :
        \/ PairEnter(p)
        \/ PairInvokeModel(p)
        \/ PairHandleToolCall(p)
        \/ PairRaiseExhausted(p)

PairSpec == PairInit /\ [][PairNext]_vars

-----------------------------------------------------------------------------
(* Vocabulary of the properties, stated on the observers and on the        *)
(* Conversation, not through the operators of the loop                     *)

\* s begins with p
StartsWith(s, p) == Len(s) >= Len(p) /\ SubSeq(s, 1, Len(p)) = p

NoToolCalls(r) == IF "tool_calls" \in DOMAIN r THEN r.tool_calls = <<>> ELSE TRUE
CallsOf(r) == IF "tool_calls" \in DOMAIN r THEN r.tool_calls ELSE <<>>

\* content absent, empty or made of whitespace only
Blank(r) ==
    IF "content" \in DOMAIN r
    THEN \A i \in 1..Len(r.content) : SubSeq(r.content, i, i) \in {" ", "\t", "\n"}
    ELSE TRUE

Terminated == pc \in {"DONE", "RAISED"}
EmptyResponse == outcome = Raised("RuntimeError", "Model returned an empty response.")
ToolLoopExhausted(n) ==
    outcome = Raised("RuntimeError",
        "Maximum tool calling iterations (" \o ToString(n) \o ") reached without final answer")

AllRepliesCallTools == \A j \in 1..Len(replied) : ~NoToolCalls(replied[j])

\* number of tool.invoke calls made so far
ToolExecutions == Cardinality({k \in 1..Len(tool_log) : tool_log[k].kind # "not_found"})

-----------------------------------------------------------------------------
(* C1: with a budget N >= 1 and a model whose every reply carries a tool   *)
(* call, the call never returns, never invokes the model more than N       *)
(* times, and when it ends it raises the exhaustion error carrying N after *)
(* exactly N model invocations.                                            *)
C1_ExhaustedAfterExactlyN ==
    (max_iterations >= 1 /\ AllRepliesCallTools) =>
        /\ Len(invoked) <= max_iterations
        /\ pc # "DONE"
        /\ Terminated =>
              /\ ToolLoopExhausted(max_iterations)
              /\ Len(invoked) = max_iterations

C1_Witness ==
    /\ pc = "RAISED"
    /\ max_iterations = 2
    /\ AllRepliesCallTools
    /\ Len(replied) = 2

(* C2 as stated: when the first reply carries no tool call and its content *)
(* is not blank, the call returns that content trimmed, after exactly one  *)
(* model invocation.                                                       *)
C2_ReturnsTrimmedContent ==
    (Len(replied) >= 1 /\ NoToolCalls(replied[1]) /\ ~Blank(replied[1])) =>
        /\ Len(invoked) = 1
        /\ pc = "DONE"
        /\ outcome = Returned(Strip(replied[1].content))

(* C2 amended: when the first reply carries no tool call and its content   *)
(* is not blank, the call returns that content unchanged (surrounding      *)
(* whitespace included) after exactly one model invocation; it never       *)
(* raises and never runs a tool.                                           *)
C2_ReturnsContentVerbatim ==
    (Len(replied) >= 1 /\ NoToolCalls(replied[1]) /\ ~Blank(replied[1])) =>
        /\ Len(invoked) = 1
        /\ Len(replied) = 1
        /\ tool_log = <<>>
        /\ pc = "DONE"
        /\ outcome = Returned(replied[1].content)

C2_Witness ==
    /\ pc = "DONE"
    /\ Len(replied) = 1
    /\ replied[1].content = " ok "
    /\ outcome = Returned(" ok ")

(* C3: with max_iterations = 0 the call raises the exhaustion error (for   *)
(* budget 0) as its first step after translating the history, and no model *)
(* invocation and no tool execution ever happens.                          *)
C3_ZeroBudgetFailsAtOnce ==
    max_iterations = 0 =>
        /\ Len(invoked) = 0
        /\ Len(replied) = 0
        /\ ToolExecutions = 0
        /\ tool_log = <<>>
        /\ pc \in {"ENTRY", "AWAITING_MODEL", "RAISED"}
        /\ Terminated => ToolLoopExhausted(0)

C3_Witness ==
    /\ max_iterations = 0
    /\ pc = "RAISED"
    /\ ToolLoopExhausted(0)
    /\ Len(history) = 5

(* C4: whatever the tool executors do and whatever tool names the model    *)
(* asks for, a call that has not ended has no outcome, and a call that has *)
(* ended has exactly one of three outcomes: it returned a text, it raised  *)
(* the empty-response error, or it raised the exhaustion error; handling a *)
(* tool call never ends the call.                                          *)
C4_OnlyThreeEndings ==
    /\ ~Terminated => outcome = Running
    /\ pc = "DONE" => outcome.kind = "return"
    /\ pc = "RAISED" =>
          /\ EmptyResponse \/ ToolLoopExhausted(max_iterations)
          /\ tool_log # <<>> =>
                \/ NoToolCalls(replied[Len(replied)])
                \/ tool_log[Len(tool_log)].index =
                       Len(CallsOf(replied[Len(replied)]))

C4_Witness ==
    /\ Terminated
    /\ \E k \in 1..Len(tool_log) : tool_log[k].kind = "raised"
    /\ \E k \in 1..Len(tool_log) : tool_log[k].kind = "not_found"

(* C5: when the replies 1..k-1 all carry tool calls and reply k carries    *)
(* none and has absent, empty or whitespace-only content, the call raises  *)
(* the empty-response error after exactly k model invocations: the model   *)
(* is not invoked again, and the error is raised in no other case.         *)
C5_EmptyResponseAtK ==
    /\ \A k \in 1..Len(replied) :
          (NoToolCalls(replied[k]) /\ Blank(replied[k])) =>
              /\ Len(replied) = k
              /\ Len(invoked) = k
              /\ pc = "RAISED"
              /\ EmptyResponse
    /\ EmptyResponse =>
          /\ Len(replied) >= 1
          /\ NoToolCalls(replied[Len(replied)]) /\ Blank(replied[Len(replied)])
          /\ \A j \in 1..(Len(replied) - 1) : ~NoToolCalls(replied[j])

C5_Witness ==
    /\ EmptyResponse
    /\ Len(replied) = 2
    /\ max_iterations = 3
    /\ replied[2] = [type |-> "ai", content |-> " ", tool_calls |-> <<>>]

-----------------------------------------------------------------------------
(* Batches: reply j sits in the Conversation right after the messages the  *)
(* j-th invocation was given; its tool calls are handled in tool_log.      *)

ReplyAt(j) == Len(invoked[j]) + 1
BatchLog(j) == SelectSeq(tool_log, LAMBDA e : e.iteration = j)
BatchSize(j) == Len(CallsOf(replied[j]))

\* the n results of batch j are in the Conversation right after reply j,
\* one per call, in the order of the calls, each tagged with its call's id
ResultsInOrder(j) ==
    LET n == BatchSize(j)
        p == ReplyAt(j)
    IN  /\ Len(messages) >= p + n
        /\ messages[p] = replied[j]
        /\ \A k \in 1..n :
              /\ messages[p + k].type = "tool"
              /\ messages[p + k].tool_call_id = CallsOf(replied[j])[k].id
        /\ Len(messages) > p + n => messages[p + n + 1].type = "ai"

\* the next model invocation, if any, was given reply j and its n results
DeliveredToNext(j) ==
    Len(invoked) > j =>
        /\ Len(invoked[j + 1]) = ReplyAt(j) + BatchSize(j)
        /\ invoked[j + 1] = SubSeq(messages, 1, ReplyAt(j) + BatchSize(j))

\* batch j is complete, exactly one of its calls raised and the others returned
OneFailsOthersSucceed(j) ==
    LET log == BatchLog(j)
    IN  /\ BatchSize(j) >= 1
        /\ Len(log) = BatchSize(j)
        /\ \E i \in 1..Len(log) :
              /\ log[i].kind = "raised"
              /\ \A k \in (1..Len(log)) \ {i} : log[k].kind = "returned"

HasUnknownTool(j) == \E k \in 1..Len(BatchLog(j)) : BatchLog(j)[k].kind = "not_found"

\* the calls of batch j are all handled once the loop has left the batch
BatchCompleted(j) ==
    (j < Len(replied) \/ pc # "EXECUTING_TOOLS") =>
        /\ Len(BatchLog(j)) = BatchSize(j)
        /\ ResultsInOrder(j)

C8_ToolCallsTakePrecedence ==
    \A j \in 1..Len(replied) :
        (BatchSize(j) >= 1 /\ ~Blank(replied[j])) =>
            /\ (j = Len(replied) /\ Len(BatchLog(j)) < BatchSize(j)) =>
                   pc = "EXECUTING_TOOLS"
            /\ pc = "DONE" => j < Len(replied)
            /\ j < Len(replied) =>
                   /\ Len(BatchLog(j)) = BatchSize(j)
                   /\ DeliveredToNext(j)
            /\ (Terminated /\ j = Len(replied)) =>
                   /\ Len(BatchLog(j)) = BatchSize(j)
                   /\ j = max_iterations
                   /\ ToolLoopExhausted(max_iterations)

C8_Witness ==
    /\ pc = "DONE"
    /\ Len(replied) = 2
    /\ BatchSize(1) = 2
    /\ replied[1].content = " ok "
    /\ outcome = Returned(" ok ")
    /\ Len(BatchLog(1)) = 2

\* the first reply carries one tool call, the second is a non-blank final answer
OneToolRoundTrip ==
    /\ Len(replied) = 2
    /\ BatchSize(1) = 1
    /\ NoToolCalls(replied[2])
    /\ ~Blank(replied[2])

(* C9: when the first reply carries one tool call and the second reply is  *)
(* a non-blank final answer, the call returns the second reply's content   *)
(* after exactly two model invocations, and the Conversation is then the   *)
(* translated history, the first reply, one tool result tagged with the    *)
(* call's id, the second reply, in this order and nothing else.            *)
C9_OneRoundTripConversation ==
    OneToolRoundTrip =>
        LET t == Len(invoked[1])
        IN  /\ Len(invoked) = 2
            /\ pc = "DONE"
            /\ outcome = Returned(replied[2].content)
            /\ invoked[1] = to_langchain_messages(history)
            /\ Len(messages) = t + 3
            /\ SubSeq(messages, 1, t) = invoked[1]
            /\ messages[t + 1] = replied[1]
            /\ messages[t + 2].type = "tool"
            /\ messages[t + 2].tool_call_id = CallsOf(replied[1])[1].id
            /\ messages[t + 3] = replied[2]

C9_Witness ==
    /\ OneToolRoundTrip
    /\ pc = "DONE"
    /\ Len(history) = 2
    /\ messages[4] = [type |-> "tool", content |-> "Result: 4", tool_call_id |-> "t1"]
    /\ [k \in 1..5 |-> messages[k].type] = <<"system", "human", "ai", "tool", "ai">>

(* C10: in every state, every tool message of the Conversation has the id  *)
(* of a tool call carried by an assistant message that stands earlier in   *)
(* the Conversation.                                                       *)
C10_ToolMessagesAnswerEarlierCalls ==
    \A p \in 1..Len(messages) :
        messages[p].type = "tool" =>
            \E q \in 1..(p - 1) :
                /\ messages[q].type = "ai"
                /\ \E c \in 1..Len(CallsOf(messages[q])) :
                      CallsOf(messages[q])[c].id = messages[p].tool_call_id

C10_Witness ==
    /\ \E k \in 1..Len(history) : history[k].role = "tool"
    /\ Len(tool_log) = 2
    /\ Cardinality({p \in 1..Len(messages) : messages[p].type = "tool"}) = 2


-----------------------------------------------------------------------------
(* Termination of the loop *)

\* passes of the while loop still allowed, tool calls of the current batch
\* still to be handled
PassesLeft == max_iterations - iteration
CallsLeft == IF pc = "EXECUTING_TOOLS" THEN Len(CallsOf(response)) + 1 - tc ELSE 0
Phase == CASE pc = "ENTRY" -> 2
           [] Terminated -> 0
           [] OTHER -> 1

\* the variant of the loop and its lexicographic order
Rank == <<Phase, PassesLeft, CallsLeft>>
LexLess(a, b) ==
    \/ a[1] < b[1]
    \/ a[1] = b[1] /\ a[2] < b[2]
    \/ a[1] = b[1] /\ a[2] = b[2] /\ a[3] < b[3]

(* C11: for every behaviour of the model and every finite budget the call  *)
(* terminates (it returns, or raises the empty-response or the exhaustion  *)
(* error); in every reachable state the number of model invocations is at  *)
(* most max_iterations; and every step of the call decreases the variant   *)
(* (phase, passes left, calls of the batch left), which is never negative. *)
C11_TerminatesWithinBudget ==
    /\ <>Terminated
    /\ [](/\ Len(invoked) <= max_iterations
          /\ PassesLeft >= 0 /\ CallsLeft >= 0
          /\ Terminated => (pc = "DONE" \/ EmptyResponse \/ ToolLoopExhausted(max_iterations)))
    /\ [][LexLess(Rank', Rank)]_vars

C11_Witness ==
    /\ max_iterations = 2
    /\ ToolLoopExhausted(2)
    /\ Len(invoked) = 2
    /\ PassesLeft = 0
    /\ Len(history) = 5

-----------------------------------------------------------------------------
(* The translator *)

Supported(turn) == turn.role \in {"system", "user", "assistant"}
MessageType(role) ==
    CASE role = "system" -> "system"
      [] role = "user" -> "human"
      [] role = "assistant" -> "ai"

\* number of supported turns among the first p turns of h
SupportedUpTo(h, p) == Cardinality({q \in 1..p : Supported(h[q])})

TranslatorCalled ==
    /\ helper_call.fn \in {"respond_with_tools._to_langchain_messages",
                    "respond._to_langchain_messages"}
    /\ helper_result # Pending

(* C12: the translator (either copy) returns a list, without raising,      *)
(* whose length is the number of turns of role system, user or assistant;  *)
(* the k-th such turn becomes the k-th message, of type system, human or   *)
(* ai and with the turn's content; turns of every other role (tool         *)
(* included) leave nothing in the list.                                    *)
C12_TranslatesSupportedTurnsInOrder ==
    TranslatorCalled =>
        LET h == helper_call.history
            out == helper_result.value
        IN  /\ helper_result.kind = "return"
            /\ Len(out) = SupportedUpTo(h, Len(h))
            /\ \A p \in 1..Len(h) :
                  Supported(h[p]) =>
                      /\ out[SupportedUpTo(h, p)].type = MessageType(h[p].role)
                      /\ out[SupportedUpTo(h, p)].content = h[p].content

C12_Witness ==
    /\ TranslatorCalled
    /\ helper_call.fn = "respond._to_langchain_messages"
    /\ [k \in 1..Len(helper_call.history) |-> helper_call.history[k].role]
           = <<"tool", "assistant", "User">>
    /\ Len(helper_result.value) = 1
    /\ helper_result.value[1].type = "ai"

-----------------------------------------------------------------------------
(* The caller's history *)

\* the step leaves the Conversation alone or appends one message to it
AppendsAtMostOne(old, new) ==
    \/ new = old
    \/ /\ Len(new) = Len(old) + 1
       /\ SubSeq(new, 1, Len(old)) = old

(* C13: no step of either reply function changes the history it was given *)
(* (so the caller's history is the same after the call, returned or        *)
(* failed, as before it); once the Conversation is built, a step leaves it *)
(* alone or appends one assistant or tool message to it.                   *)
C13_HistoryNeverMutated ==
    [][/\ history' = history
       /\ pc \notin {"ENTRY", "REPLY_ENTRY"} =>
             /\ AppendsAtMostOne(messages, messages')
             /\ messages' # messages =>
                   messages'[Len(messages')].type \in {"ai", "tool"}]_vars

C13_Witness ==
    /\ pc = "DONE"
    /\ Len(tool_log) = 2
    /\ Len(replied) = 2
    /\ Len(history) = 5
    /\ Len(messages) = 8

-----------------------------------------------------------------------------
(* The persisted history of a session *)

HistoryStored == "chat_history" \in DOMAIN session_state
StoredHistory == session_state["chat_history"]
StoredRoles == [k \in 1..Len(StoredHistory) |-> StoredHistory[k].role]
Turn(role, content) == [role |-> role, content |-> content]
IsPrefix(s, t) == Len(s) <= Len(t) /\ SubSeq(t, 1, Len(s)) = s

(* C14: while the reply of an exchange is being generated the persisted    *)
(* history is the history before the exchange plus the user's turn, and    *)
(* the model is invoked with that turn as its last message; once the       *)
(* exchange has succeeded the persisted history is the history before it   *)
(* plus exactly two turns, the user's turn and then the assistant's turn   *)
(* holding the text of the model's one reply.                              *)
C14_SuccessfulExchangeAddsTwoTurns ==
    /\ exchange.status = "running" =>
          /\ HistoryStored
          /\ StoredHistory = Append(exchange.before, Turn("user", exchange.prompt))
          /\ invoked # <<>> =>
                invoked[1][Len(invoked[1])] =
                    [type |-> "human", content |-> exchange.prompt]
    /\ exchange.status = "succeeded" =>
          /\ HistoryStored
          /\ Len(invoked) = 1
          /\ StoredHistory = exchange.before \o
                 << Turn("user", exchange.prompt),
                    Turn("assistant", replied[1].content) >>

C14_Witness ==
    /\ exchange.status = "succeeded"
    /\ StoredRoles = <<"system", "user", "assistant", "user", "assistant">>
    /\ CallsOf(replied[1]) # <<>>

(* C15: once the reply generation of an exchange has failed, the script    *)
(* has ended its run in the ordinary way (the session is idle again), the  *)
(* failure is the empty-response error, the persisted history is the       *)
(* history before the exchange plus the user's turn and nothing else, and  *)
(* the next chat input can be submitted.                                   *)
C15_FailedExchangeKeepsUserTurnOnly ==
    exchange.status = "failed" =>
        /\ run_pc = "IDLE"
        /\ EmptyResponse
        /\ HistoryStored
        /\ StoredHistory = Append(exchange.before, Turn("user", exchange.prompt))
        /\ Cardinality({k \in 1..Len(StoredHistory) :
                           StoredHistory[k].role = "user"}) < MaxExchanges
              => ENABLED SubmitPrompt

C15_Witness ==
    /\ exchange.status = "succeeded"
    /\ StoredRoles = <<"system", "user", "user", "assistant">>

(* C16, as claimed: at every step of a session a stored history stays      *)
(* stored and the history after the step has the history before it as a    *)
(* prefix.                                                                 *)
C16_StoredHistoryOnlyGrows ==
    [][HistoryStored =>
          /\ HistoryStored'
          /\ IsPrefix(StoredHistory, StoredHistory')]_vars

(* C16, amended: a history is created only when none is stored, as the one *)
(* system turn holding the sidebar's system prompt; at every step but      *)
(* "Reset chat" a stored history stays stored and only grows at its end;   *)
(* "Reset chat" removes it and asks for the run that creates a new one.    *)
C16_OnlyGrowsUntilReset ==
    [][/\ HistoryStored =>
             \/ /\ HistoryStored'
                /\ IsPrefix(StoredHistory, StoredHistory')
             \/ /\ run_pc = "IDLE" /\ run_pc' = "RERUN"
                /\ ~HistoryStored'
       /\ (~HistoryStored /\ HistoryStored') =>
             StoredHistory' = <<Turn("system", system_prompt')>>
       /\ (run_pc = "RERUN" /\ run_pc' # "RERUN") => HistoryStored']_vars

C16_Witness ==
    /\ ~HistoryStored
    /\ run_pc = "RERUN"
    /\ Len(invoked) = 1
    /\ Len(invoked[1]) = 4

-----------------------------------------------------------------------------
(* Two calls at once *)

Entered(p) == runs[p].pc # "ENTRY"
ConversationOf(p) == heap[runs[p].messages]
\* the model's replies to call p, in order
RepliesTo(p) == SelectSeq(runs[p].appended, LAMBDA m : m.type = "ai")

\* how a call with budget n ends on its own once it has received the
\* replies rs and is over
AloneOutcome(n, rs) ==
    IF rs # <<>> /\ NoToolCalls(rs[Len(rs)])
    THEN IF Blank(rs[Len(rs)])
         THEN [kind |-> "raise", type |-> "RuntimeError",
               value |-> "Model returned an empty response."]
         ELSE [kind |-> "return", value |-> rs[Len(rs)].content]
    ELSE [kind |-> "raise", type |-> "RuntimeError",
          value |-> "Maximum tool calling iterations (" \o ToString(n)
                        \o ") reached without final answer"]

(* C17: of two calls started on the same history and interleaved in any    *)
(* order, each has a Conversation of its own: it is another list than the  *)
(* other call's, it holds the translated history followed by the messages  *)
(* this call appended and nothing else, each invocation of the model by    *)
(* the call was given a prefix of it that the model's reply then extended, *)
(* and a call that is over ended as its own replies alone decide.          *)
C17_ConversationsNotShared ==
    \A p \in Executions :
        Entered(p) =>
            /\ \A q \in Executions \ {p} :
                  Entered(q) => runs[q].messages # runs[p].messages
            /\ ConversationOf(p) = runs[p].translated \o runs[p].appended
            /\ Len(runs[p].invoked) = Len(RepliesTo(p))
            /\ \A k \in 1..Len(runs[p].invoked) :
                  LET given == runs[p].invoked[k]
                  IN  /\ IsPrefix(given, ConversationOf(p))
                      /\ ConversationOf(p)[Len(given) + 1] = RepliesTo(p)[k]
            /\ runs[p].pc \in {"DONE", "RAISED"} =>
                  /\ runs[p].outcome = AloneOutcome(max_iterations, RepliesTo(p))
                  /\ \/ Len(RepliesTo(p)) = max_iterations
                     \/ /\ RepliesTo(p) # <<>>
                        /\ NoToolCalls(RepliesTo(p)[Len(RepliesTo(p))])

C17_Witness ==
    /\ runs[1].pc = "DONE"
    /\ runs[2].pc = "RAISED"
    /\ runs[1].messages > runs[2].messages
    /\ Len(runs[1].appended) = 3
    /\ Len(runs[2].appended) = 4
    /\ runs[1].appended[1] # runs[2].appended[1]

-----------------------------------------------------------------------------
(* The tool registry *)

RegisteredAt(name) == {i \in 1..Len(AVAILABLE_TOOLS) : AVAILABLE_TOOLS[i].name = name}

\* the two strings have the same length and the same character at each place
SameText(a, b) ==
    /\ Len(a) = Len(b)
    /\ \A i \in 1..Len(a) : SubSeq(a, i, i) = SubSeq(b, i, i)

LookupCalled ==
    /\ helper_call.fn = "get_tool_by_name"
    /\ helper_result # Pending

(* C18: the names of the registry are pairwise distinct; a lookup returns  *)
(* the registered tool whose name is the asked name character for          *)
(* character, and returns None for every other string, the same name in    *)
(* another case included.                                                  *)
C18_LookupIsExactMatch ==
    /\ \A i, j \in 1..Len(AVAILABLE_TOOLS) :
          i # j => ~SameText(AVAILABLE_TOOLS[i].name, AVAILABLE_TOOLS[j].name)
    /\ LookupCalled =>
          LET asked == helper_call.name
              found == helper_result.value
          IN  /\ helper_result.kind = "return"
              /\ found # [is_none |-> TRUE] =>
                    /\ SameText(found.name, asked)
                    /\ \E i \in 1..Len(AVAILABLE_TOOLS) : AVAILABLE_TOOLS[i] = found
              /\ found = [is_none |-> TRUE] =>
                    \A i \in 1..Len(AVAILABLE_TOOLS) :
                        ~SameText(AVAILABLE_TOOLS[i].name, asked)

C18_Witness ==
    /\ LookupCalled
    /\ helper_call.name = "SEARCH_WEB"
    /\ helper_result.value = [is_none |-> TRUE]

ListCalled ==
    /\ helper_call.fn = "list_available_tools"
    /\ helper_result # Pending

(* C19: the listing returns the names of all registered tools, one per     *)
(* tool and in the order of registration; a name is in the listing exactly *)
(* when the lookup of that name finds a tool.                              *)
C19_ListingInRegistrationOrder ==
    ListCalled =>
        LET names == helper_result.value
        IN  /\ helper_result.kind = "return"
            /\ Len(names) = Len(AVAILABLE_TOOLS)
            /\ \A i \in 1..Len(names) : names[i] = AVAILABLE_TOOLS[i].name
            /\ names = << "search_web", "search_documents", "fetch_weather",
                          "calculate_math", "get_current_time", "convert_currency" >>
            /\ \A asked \in LookupNames :
                  (\E i \in 1..Len(names) : names[i] = asked)
                      <=> get_tool_by_name(asked) # [is_none |-> TRUE]

C19_Witness ==
    /\ ListCalled
    /\ Len(helper_result.value) = 6
    /\ helper_result.value[3] = "fetch_weather"

-----------------------------------------------------------------------------
(* Resolution of a requested tool *)

\* the tools bound to the handle that bear the given name
BoundNamed(name) ==
    {model.bound[i] : i \in {i \in 1..Len(model.bound) : model.bound[i].name = name}}

(* C20: every handled tool call whose name is the name of a tool bound to  *)
(* the model handle was resolved to that tool and executed (its executor   *)
(* returned or raised); a call is answered with not found only when no     *)
(* bound tool has its name.                                                *)
C20_BoundToolAlwaysResolved ==
    \A k \in 1..Len(tool_log) :
        LET handled == tool_log[k]
        IN  /\ BoundNamed(handled.call.name) # {} =>
                  /\ handled.kind \in {"returned", "raised"}
                  /\ handled.tool \in BoundNamed(handled.call.name)
            /\ handled.kind = "not_found" => BoundNamed(handled.call.name) = {}

-----------------------------------------------------------------------------
(* The results of a batch *)

\* number of calls of batch j handled so far
HandledOf(j) == Len(BatchLog(j))

\* messages of the Conversation that follow reply j up to the next reply
\* of the model, or up to the end
AfterReply(j) ==
    LET p == ReplyAt(j)
        q == IF j < Len(replied) THEN ReplyAt(j + 1) - 1 ELSE Len(messages)
    IN  SubSeq(messages, p + 1, q)

(* C21: for every reply of the model that carries tool calls, the messages *)
(* between it and the model's next reply (or the end of the Conversation)  *)
(* are the tool messages of the calls handled so far, one per call, in the *)
(* order of the calls, each tagged with its call's id, whatever the call   *)
(* came to (returned, raised, not found); when the model is invoked again  *)
(* every call of the batch has its message and the model is given them.    *)
C21_BatchResultsContiguousInOrder ==
    \A j \in 1..Len(replied) :
        LET calls == CallsOf(replied[j])
            after == AfterReply(j)
        IN  /\ messages[ReplyAt(j)] = replied[j]
            /\ Len(after) = HandledOf(j)
            /\ HandledOf(j) <= Len(calls)
            /\ \A k \in 1..Len(after) :
                  /\ after[k].type = "tool"
                  /\ after[k].tool_call_id = calls[k].id
                  /\ BatchLog(j)[k].call = calls[k]
                  /\ BatchLog(j)[k].kind \in {"returned", "raised", "not_found"}
            /\ j < Len(replied) =>
                  /\ HandledOf(j) = Len(calls)
                  /\ invoked[j + 1] = SubSeq(messages, 1, ReplyAt(j) + Len(calls))
            /\ (j = Len(replied) /\ pc # "EXECUTING_TOOLS") =>
                  HandledOf(j) = Len(calls)

C21_Witness ==
    /\ Len(replied) = 2
    /\ Len(CallsOf(replied[1])) = 2
    /\ [k \in 1..HandledOf(1) |-> BatchLog(1)[k].kind] = <<"not_found", "raised">>
    /\ AfterReply(1)[1].tool_call_id = "t3"
    /\ AfterReply(1)[2].tool_call_id = "t2"

\* the message of the Conversation that answers the handled call e
MessageOf(e) == messages[ReplyAt(e.iteration) + e.index]

(* C22: for every tool call whose executor returned, the tool message that *)
(* answers it has as content the returned text, character for character,   *)
(* with nothing before or after it, and as tool_call_id the id of the      *)
(* call.                                                                   *)
C22_SuccessContentIsReturnedValue ==
    \A k \in 1..Len(tool_log) :
        LET e == tool_log[k]
        IN  e.kind = "returned" =>
                /\ Len(messages) >= ReplyAt(e.iteration) + e.index
                /\ MessageOf(e).type = "tool"
                /\ MessageOf(e).content = e.text
                /\ Len(MessageOf(e).content) = Len(e.text)
                /\ MessageOf(e).tool_call_id = e.call.id

C22_Witness ==
    /\ Len(tool_log) = 2
    /\ tool_log[1].kind = "returned"
    /\ tool_log[2].kind = "returned"
    /\ tool_log[1].iteration # tool_log[2].iteration
    /\ MessageOf(tool_log[2]).content = "Result: 4"
    /\ MessageOf(tool_log[2]).tool_call_id = "t2"

-----------------------------------------------------------------------------
(* Binding *)

BindCalled ==
    /\ helper_call.fn = "bind_tools_to_model"
    /\ helper_result # Pending

NotGiven == [is_none |-> TRUE]
NamesOf(tools) == [i \in 1..Len(tools) |-> tools[i].name]

(* C23: bind_tools_to_model binds the given model; without a tool list it  *)
(* binds the six registry tools in registration order, and with one that   *)
(* list; it passes tool_choice on exactly when a policy is given, and      *)
(* parallel_tool_calls (as False) exactly when the flag is false; with the *)
(* defaults no keyword argument is passed at all.                          *)
C23_BindingDefaults ==
    BindCalled =>
        LET args == helper_call
            binding == helper_result.value
        IN  /\ helper_result.kind = "return"
            /\ binding.of = args.model
            /\ args.tools = NotGiven =>
                  NamesOf(binding.bound) =
                      << "search_web", "search_documents", "fetch_weather",
                         "calculate_math", "get_current_time", "convert_currency" >>
            /\ args.tools # NotGiven => binding.bound = args.tools.value
            /\ ("tool_choice" \in DOMAIN binding.kwargs) <=> (args.tool_choice # NotGiven)
            /\ args.tool_choice # NotGiven =>
                  binding.kwargs["tool_choice"] = args.tool_choice.value
            /\ ("parallel_tool_calls" \in DOMAIN binding.kwargs)
                  <=> (args.parallel_tool_calls = FALSE)
            /\ args.parallel_tool_calls = FALSE =>
                  binding.kwargs["parallel_tool_calls"] = FALSE
            /\ DOMAIN binding.kwargs \subseteq {"tool_choice", "parallel_tool_calls"}

C23_Witness ==
    /\ BindCalled
    /\ helper_call.tools = NotGiven
    /\ helper_call.tool_choice = NotGiven
    /\ helper_call.parallel_tool_calls = TRUE
    /\ Len(helper_result.value.bound) = 6
    /\ DOMAIN helper_result.value.kwargs = {}

-----------------------------------------------------------------------------
(* The last permitted pass *)

\* the model has been invoked as often as the budget permits
BudgetSpent == max_iterations >= 1 /\ Len(replied) = max_iterations
LastReply == replied[Len(replied)]
EarlierRepliesCallTools ==
    \A j \in 1..(Len(replied) - 1) : ~NoToolCalls(replied[j])

(* C24: when the replies 1..N-1 carry tool calls and reply N =             *)
(* max_iterations carries none, the call is over with that reply: it has   *)
(* returned the reply's text, or raised the empty-response error if the    *)
(* text is blank; it has invoked the model N times and it does not raise   *)
(* the exhaustion error.                                                   *)
C24_FinalAnswerAtBudgetIsReturned ==
    (BudgetSpent /\ EarlierRepliesCallTools /\ NoToolCalls(LastReply)) =>
        /\ Terminated
        /\ Len(invoked) = max_iterations
        /\ ~ToolLoopExhausted(max_iterations)
        /\ IF Blank(LastReply)
           THEN pc = "RAISED" /\ EmptyResponse
           ELSE /\ pc = "DONE"
                /\ outcome = [kind |-> "return", value |-> LastReply.content]

C24_Witness ==
    /\ max_iterations = 3
    /\ Len(replied) = 3
    /\ NoToolCalls(LastReply)
    /\ pc = "DONE"
    /\ Len(tool_log) = 2
    /\ iteration = 3

\* the tool messages that end the Conversation
TrailingToolMessages ==
    LET tail == {k \in 0..Len(messages) :
                    \A q \in (Len(messages) - k + 1)..Len(messages) :
                        messages[q].type = "tool"}
    IN  CHOOSE k \in tail : \A other \in tail : other <= k

(* C25: when the call raises the exhaustion error (budget N >= 1), reply N *)
(* carried tool calls, every one of them has been handled (its executor    *)
(* run when the tool was found) and answered by a tool message, these      *)
(* messages end the Conversation in the order of the calls, and none of    *)
(* the N model invocations was given any of them.                          *)
C25_LastBatchExecutedBeforeExhaustion ==
    (max_iterations >= 1 /\ ToolLoopExhausted(max_iterations)) =>
        LET n == max_iterations
            calls == CallsOf(replied[n])
        IN  /\ Len(replied) = n
            /\ Len(calls) >= 1
            /\ HandledOf(n) = Len(calls)
            /\ \A k \in 1..Len(calls) :
                  /\ BatchLog(n)[k].call = calls[k]
                  /\ messages[ReplyAt(n) + k].type = "tool"
                  /\ messages[ReplyAt(n) + k].tool_call_id = calls[k].id
            /\ Len(messages) = ReplyAt(n) + Len(calls)
            /\ TrailingToolMessages = Len(calls)
            /\ Len(invoked) = n
            /\ \A j \in 1..Len(invoked) : Len(invoked[j]) < ReplyAt(n)

C25_Witness ==
    /\ max_iterations = 1
    /\ ToolLoopExhausted(1)
    /\ TrailingToolMessages = 2
    /\ tool_log[1].kind = "returned"
    /\ tool_log[2].kind = "raised"
    /\ Len(invoked) = 1

\* ---------------------------------------------------------------------
\* C26
\* ---------------------------------------------------------------------

\* the call of generate_reply that follows the call with tools is over
BothCallsOver == earlier # [kind |-> "none"] /\ pc \in {"REPLY_DONE", "REPLY_RAISED"}

\* C26: for every history and every model that never emits tool calls,
\* generate_reply_with_tools with max_iterations >= 1 and generate_reply
\* have the same outcome (the same returned text, or the empty-response
\* error in both), and each invokes the model exactly once, with the same
\* translated message sequence.
C26_SameOutcomeWithoutToolCalls ==
    (BothCallsOver /\ max_iterations >= 1) =>
        /\ outcome = earlier.outcome
        /\ outcome.kind = "return" \/
              (outcome = [kind |-> "raise", type |-> "RuntimeError",
                          value |-> "Model returned an empty response."])
        /\ Len(invoked) = 1
        /\ Len(earlier.invoked) = 1
        /\ invoked[1] = earlier.invoked[1]

\* both calls have returned the reply's text, the history holding a tool
\* turn, which the translation leaves out
C26_Witness ==
    /\ BothCallsOver
    /\ max_iterations >= 1
    /\ outcome.kind = "return"
    /\ earlier.outcome.kind = "return"
    /\ \E t \in 1..Len(history) : history[t].role = "tool"

\* ---------------------------------------------------------------------
\* C27
\* ---------------------------------------------------------------------

\* a step in which the script ran without a chat input, and so did nothing
\* to the session but make sure of the history
ScriptRanIdle == run_pc \in {"IDLE", "RERUN"} /\ run_pc' = "IDLE"

\* a step in which the script ran with a chat input up to the model call
ScriptRanWithInput == run_pc = "IDLE" /\ run_pc' = "GENERATING"

\* C27: once the history has been initialized, in every state reached
\* through appended turns and user exchanges the stored history is
\* non-empty and its first turn is the system turn made at initialization
\* (holding the system prompt of that moment); making sure of the history
\* again, with the same or a different system prompt, leaves the stored
\* history as it is.
C27_SystemTurnStaysFirst ==
    /\ [](HistoryStored =>
             /\ Len(StoredHistory) >= 1
             /\ StoredHistory[1].role = "system")
    /\ [][/\ (~HistoryStored /\ HistoryStored') =>
                StoredHistory' = << [role |-> "system", content |-> system_prompt'] >>
          /\ (HistoryStored /\ HistoryStored') =>
                StoredHistory'[1] = StoredHistory[1]
          /\ (HistoryStored /\ ScriptRanIdle) =>
                session_state' = session_state
          /\ (HistoryStored /\ ScriptRanWithInput) =>
                /\ Len(StoredHistory') = Len(StoredHistory) + 1
                /\ SubSeq(StoredHistory', 1, Len(StoredHistory)) = StoredHistory
                /\ StoredHistory'[Len(StoredHistory')].role = "user"]_vars

\* after an exchange the sidebar holds another system prompt than the one
\* of the initialization, and the script has run with it
C27_Witness ==
    /\ HistoryStored
    /\ run_pc = "IDLE"
    /\ Len(StoredHistory) >= 3
    /\ StoredHistory[1].role = "system"
    /\ StoredHistory[1].content # system_prompt
====
